---- MODULE Spec2Model ----
(***************************************************************************)
(* Commit removal by contribution-graph coordinates.                       *)
(*                                                                         *)
(* Entry points modelled:                                                  *)
(*   "adv"    removeCommitByCoordinates(x, y, options)  (advanced module)  *)
(*   "basic"  removeCommitByCoordinates(x, y, force)    (removeCommit.js)  *)
(*   "single" removeSingleCommitByCoordinates(x, y, force)                 *)
(*   "bydate" removeCommitByDate(dateStr, force)                           *)
(*                                                                         *)
(* The History Store (git, reached through simple-git) is the environment: *)
(* every call into it either succeeds or rejects.  One action is one       *)
(* awaited call together with the synchronous code that follows it up to   *)
(* the next await.  Commit identity is kept stable across rewrites and the *)
(* listing is the history of the checked-out line.                         *)
(***************************************************************************)
EXTENDS Integers, Sequences, FiniteSets

VARIABLES
    now,        \* <<year, month, day>> read by moment()
    commits,    \* log.all: commits of the history, most recent first
    backups,    \* backup-before-removal-* branches, in branchLocal order
    clock,      \* number of backup branches created so far (orders Date.now())
    current,    \* checked-out branch: "main", "dev" or "backup"
    rlClosed,   \* the module-level readline interface has been closed
    pc,         \* position of the invocation in progress
    inv,        \* the invocation's arguments
    target,     \* targetDateStr
    sel,        \* matchingCommits / commitsToRemove
    todo,       \* what the running loop still has to visit
    calls,      \* store calls (and the prompt answer) of the invocation, in order
    outcome,    \* "pending", "returned", "threw" or "hung"
    errMsg,     \* message of the error raised or logged ("" when none)
    pre,        \* the repository when the invocation started
    faults,     \* a store call was rejected or an invocation did not return
    run,        \* the batch or command-line run in progress
    flows,      \* the invocations a run has started, in starting order
    trace       \* store calls of a run, each tagged with its flow, in order

vars == <<now, commits, backups, clock, current, rlClosed, pc, inv, target,
          sel, todo, calls, outcome, errMsg, pre, faults, run, flows, trace>>

\* the state of batches and command-line runs
runVars == <<run, flows, trace>>

(***************************************************************************)
(* Bounds                                                                  *)
(***************************************************************************)
MaxCommits == 2
MaxClock == 6

(***************************************************************************)
(* Program constants                                                       *)
(***************************************************************************)
MaxWeek == 54
MaxDay == 6
KeepBackups == 5

(***************************************************************************)
(* Calendar arithmetic of moment(): dates are day numbers, formatted       *)
(* dates are <<year, month, day>>.                                         *)
(***************************************************************************)
IsLeap(y) == (y % 4 = 0 /\ y % 100 # 0) \/ y % 400 = 0

DaysInMonth(y, m) ==
    IF m = 2 THEN (IF IsLeap(y) THEN 29 ELSE 28)
    ELSE IF m \in {4, 6, 9, 11} THEN 30 ELSE 31

\* day number of a calendar date (days since 1970-01-01)
DaysFromCivil(y, m, d) ==
    LET yy  == IF m <= 2 THEN y - 1 ELSE y
        era == yy \div 400
        yoe == yy - era * 400
        mp  == (m + 9) % 12
        doy == (153 * mp + 2) \div 5 + d - 1
        doe == yoe * 365 + yoe \div 4 - yoe \div 100 + doy
    IN  era * 146097 + doe - 719468

\* format("YYYY-MM-DD") of a day number
FormatDate(z) ==
    LET zz  == z + 719468
        era == zz \div 146097
        doe == zz - era * 146097
        yoe == (doe - doe \div 1460 + doe \div 36524 - doe \div 146096) \div 365
        doy == doe - (365 * yoe + yoe \div 4 - yoe \div 100)
        mp  == (5 * doy + 2) \div 153
        d   == doy - (153 * mp + 2) \div 5 + 1
        m   == IF mp < 10 THEN mp + 3 ELSE mp - 9
        y   == yoe + era * 400 + (IF m <= 2 THEN 1 ELSE 0)
    IN  <<y, m, d>>

\* moment().subtract(1, "y"): same month and day a year earlier, the day
\* clamped to the length of the month
SubtractYear(ref) ==
    LET y == ref[1] - 1
        m == ref[2]
        d == IF ref[3] > DaysInMonth(y, m) THEN DaysInMonth(y, m) ELSE ref[3]
    IN  <<y, m, d>>

\* moment().subtract(1,"y").add(1,"d").add(x,"w").add(y,"d")
TargetDayFromYearAgo(x, y, ref) ==
    LET a == SubtractYear(ref)
    IN  DaysFromCivil(a[1], a[2], a[3]) + 7 * x + y

\* moment().subtract(1, "y").add(1, "d").add(x, "w").add(y, "d") as a day number
TargetDay(x, y, ref) ==
    LET a == SubtractYear(ref)
    IN  DaysFromCivil(a[1], a[2], a[3]) + 1 + 7 * x + y

TargetDateStr(x, y, ref) == FormatDate(TargetDay(x, y, ref))

(***************************************************************************)
(* Inputs                                                                  *)
(***************************************************************************)
\* <<week, day>> arguments: the two dates the histories carry, the last
\* cell of the grid, and one pair beyond each edge
Coords == {<<0, 0>>, <<0, 1>>, <<54, 6>>, <<-1, 0>>, <<55, 0>>, <<0, -1>>, <<0, 7>>}
RefDates == {<<2025, 1, 15>>}
Answers == {"y", "YES", "n", ""}

\* the dates commits of the modelled histories carry
CommitDates(ref) == {TargetDateStr(0, 0, ref), TargetDateStr(0, 1, ref)}

\* dates handed to removeCommitByDate
DateArgs(ref) == CommitDates(ref) \cup {TargetDateStr(1, 0, ref)}

\* histories: commit i has hash i, position 1 is the most recent commit
Histories(ref) ==
    UNION { { [i \in 1..n |-> [hash |-> i, date |-> f[i]]] :
              f \in [1..n -> CommitDates(ref)] } : n \in 0..MaxCommits }

NoRun == [kind |-> "none", coords |-> <<>>,
          opts |-> [force |-> FALSE, dryRun |-> FALSE, interactive |-> FALSE,
                    preview |-> FALSE, debug |-> FALSE],
          status |-> "none", exit |-> 0]

NoInv == [entry |-> "none", x |-> 0, y |-> 0, dateStr |-> <<>>,
          force |-> FALSE, interactive |-> FALSE, dryRun |-> FALSE,
          backup |-> FALSE]

Call(op, arg, ok) == [op |-> op, arg |-> arg, ok |-> ok]

Repo == [commits |-> commits, backups |-> backups, current |-> current]

(***************************************************************************)
(* Pure parts of the code                                                  *)
(***************************************************************************)
\* the coordinate validation at the head of every coordinate entry point
ValidationError(x, y) ==
    IF x < 0 \/ x > MaxWeek
    THEN "X coordinate must be between 0 and 54 (weeks)"
    ELSE IF y < 0 \/ y > MaxDay
         THEN "Y coordinate must be between 0 and 6 (days)"
         ELSE ""

\* answer.toLowerCase()
ToLowerCase(s) == IF s = "YES" THEN "yes" ELSE s

\* what askConfirmation resolves to
Confirmed(answer) == ToLowerCase(answer) = "y" \/ ToLowerCase(answer) = "yes"

\* log.all.filter(commit => format(commit.date) === targetDateStr)
SelectByDate(all, ds) == SelectSeq(all, LAMBDA c : c.date = ds)

\* logEntries = log.latest ? [log.latest, ...log.all] : log.all
\* (log.latest is the first entry of log.all, null for an empty log)
LogEntries(all) == IF all # <<>> THEN <<all[1]>> \o all ELSE all

\* the forEach/push selection of the advanced module
SelectAdv(all, ds) == SelectByDate(LogEntries(all), ds)

\* commits.map(c => c.hash)
Hashes(cs) == {cs[i].hash : i \in 1..Len(cs)}

\* the history once the commits of hs have been excised
Excise(all, hs) == SelectSeq(all, LAMBDA c : c.hash \notin hs)

CommitToRemoveLast(matching) == matching[Len(matching)]

\* const commitToRemove = matchingCommits[0]
CommitToRemove(matching) == matching[1]

\* backupBranches.slice(0, -5)
OldBranches(bs) ==
    IF Len(bs) > KeepBackups THEN SubSeq(bs, 1, Len(bs) - KeepBackups) ELSE <<>>

\* where the advanced module goes once the selection is known
AfterSelect(matching, o) ==
    IF Len(matching) = 0 THEN (IF o.backup THEN "a_cleanup" ELSE "return")
    ELSE IF o.dryRun THEN "return"
    ELSE IF o.interactive /\ ~o.force THEN "a_confirm"
    ELSE "a_filter"

\* where the advanced module goes after the confirmation answer
AfterConfirm(confirmed, o) ==
    IF confirmed THEN "a_filter"
    ELSE IF o.backup THEN "a_cleanup" ELSE "return"

\* removeCommitsUsingFilter after git.raw(filter-branch): push on success,
\* the catch block's removeCommitsUsingRebase on rejection
AfterFilter(ok) == IF ok THEN "a_push" ELSE "a_rebase"

AfterPushEscalates(ok) == IF ok THEN "return" ELSE "a_rebase"

\* the inner try/catch around git.push: both outcomes fall through
AfterPush(ok) == "return"

RebaseRestAborts(rest, ok) == IF ok THEN Tail(rest) ELSE <<>>

\* removeCommitsUsingRebase: the per-commit try/catch keeps the loop going
RebaseRest(rest, ok) == Tail(rest)

\* removeCommit.js: removeCommitByHash rethrows, which leaves the for loop
BasicRest(rest, ok) == IF ok THEN Tail(rest) ELSE <<>>

(***************************************************************************)
(* Initial state                                                           *)
(***************************************************************************)
Init ==
    /\ now \in RefDates
    /\ commits \in Histories(now)
    /\ backups = <<>>
    /\ clock = 0
    /\ current \in {"main", "dev"}
    /\ rlClosed = FALSE
    /\ pc = "idle"
    /\ inv = NoInv
    /\ target = <<>>
    /\ sel = <<>>
    /\ todo = <<>>
    /\ calls = <<>>
    /\ outcome = "pending"
    /\ errMsg = ""
    /\ pre = Repo
    /\ faults = FALSE
    /\ run = NoRun
    /\ flows = <<>>
    /\ trace = <<>>

Idle == pc = "idle"

\* bookkeeping of `faults`, conjoined to every step of an invocation
Noted ==
    faults' = (\/ faults
               \/ outcome' \in {"threw", "hung"}
               \/ \E i \in 1..Len(calls') :
                     calls'[i].op # "question" /\ ~calls'[i].ok)

\* what every entry point does to the invocation record when it is called
Begin(i) ==
    /\ Idle
    /\ inv' = i
    /\ sel' = <<>>
    /\ todo' = <<>>
    /\ calls' = <<>>
    /\ pre' = Repo

(***************************************************************************)
(* Advanced module                                                         *)
(***************************************************************************)
\* leave the function: `finally { rl.close() }` runs on every way out
AdvGoto(next) ==
    /\ pc' = IF next = "return" THEN "done" ELSE next
    /\ outcome' = IF next = "return" THEN "returned" ELSE outcome
    /\ rlClosed' = IF next = "return" THEN TRUE ELSE rlClosed
    /\ errMsg' = errMsg

\* catch (error) { console.error(...); throw error } finally { rl.close() }
AdvThrow(msg) ==
    /\ pc' = "done"
    /\ outcome' = "threw"
    /\ errMsg' = msg
    /\ rlClosed' = TRUE

StartAdv(x, y, force, interactive, dryRun, backup) ==
    /\ Begin([entry |-> "adv", x |-> x, y |-> y, dateStr |-> <<>>,
              force |-> force, interactive |-> interactive,
              dryRun |-> dryRun, backup |-> backup])
    /\ (backup /\ ~dryRun) => clock < MaxClock
    /\ IF ValidationError(x, y) # ""
       THEN /\ AdvThrow(ValidationError(x, y))
            /\ target' = <<>>
       ELSE IF backup /\ ~dryRun
            THEN /\ pc' = "a_branch"
                 /\ outcome' = "pending"
                 /\ errMsg' = ""
                 /\ target' = <<>>
                 /\ UNCHANGED rlClosed
            ELSE /\ pc' = "a_log"
                 /\ outcome' = "pending"
                 /\ errMsg' = ""
                 /\ target' = TargetDateStr(x, y, now)
                 /\ UNCHANGED rlClosed
    /\ UNCHANGED <<now, commits, backups, clock, current>>
    /\ Noted
    /\ UNCHANGED runVars

\* await git.checkoutLocalBranch(`backup-before-removal-${Date.now()}`)
A_CheckoutLocalBranch ==
    /\ pc = "a_branch"
    /\ \E ok \in BOOLEAN :
        /\ calls' = Append(calls, Call("checkoutLocalBranch", {clock + 1}, ok))
        /\ IF ok
           THEN /\ backups' = Append(backups, clock + 1)
                /\ clock' = clock + 1
                /\ current' = "backup"
                /\ AdvGoto("a_checkout")
           ELSE /\ AdvThrow("git")
                /\ UNCHANGED <<backups, clock, current>>
    /\ UNCHANGED <<now, commits, inv, target, sel, todo, pre>>
    /\ Noted
    /\ UNCHANGED runVars

\* await git.checkout('main'), then the target date is computed
A_CheckoutMain ==
    /\ pc = "a_checkout"
    /\ \E ok \in BOOLEAN :
        /\ calls' = Append(calls, Call("checkout", {}, ok))
        /\ IF ok
           THEN /\ current' = "main"
                /\ target' = TargetDateStr(inv.x, inv.y, now)
                /\ AdvGoto("a_log")
           ELSE /\ AdvThrow("git")
                /\ UNCHANGED <<current, target>>
    /\ UNCHANGED <<now, commits, backups, clock, inv, sel, todo, pre>>
    /\ Noted
    /\ UNCHANGED runVars

\* await git.log([...]), the selection, and the branches on its size
A_Log ==
    /\ pc = "a_log"
    /\ \E ok \in BOOLEAN :
        /\ calls' = Append(calls, Call("log", {}, ok))
        /\ IF ok
           THEN /\ sel' = SelectAdv(commits, target)
                /\ AdvGoto(AfterSelect(SelectAdv(commits, target), inv))
           ELSE /\ AdvThrow("git")
                /\ UNCHANGED sel
    /\ UNCHANGED <<now, commits, backups, clock, current, inv, target, todo, pre>>
    /\ Noted
    /\ UNCHANGED runVars

\* await askConfirmation(...): rl.question on the module-level interface.
\* On a closed interface rl.question throws (the promise rejects) or never
\* calls back, depending on the runtime.
A_Confirm ==
    /\ pc = "a_confirm"
    /\ IF rlClosed
       THEN /\ \E o \in {"threw", "hung"} :
                IF o = "threw"
                THEN AdvThrow("readline was closed")
                ELSE /\ pc' = "hung"
                     /\ outcome' = "hung"
                     /\ UNCHANGED <<errMsg, rlClosed>>
            /\ UNCHANGED calls
       ELSE \E answer \in Answers :
            /\ calls' = Append(calls, Call("question", {}, Confirmed(answer)))
            /\ AdvGoto(AfterConfirm(Confirmed(answer), inv))
    /\ UNCHANGED <<now, commits, backups, clock, current, inv, target, sel, todo, pre>>
    /\ Noted
    /\ UNCHANGED runVars

\* cleanupBackupBranch: await git.branchLocal() and the length test
A_Cleanup ==
    /\ pc = "a_cleanup"
    /\ \E ok \in BOOLEAN :
        /\ calls' = Append(calls, Call("branchLocal", {}, ok))
        /\ IF ok /\ OldBranches(backups) # <<>>
           THEN /\ todo' = OldBranches(backups)
                /\ AdvGoto("a_delete")
           ELSE /\ todo' = todo
                /\ AdvGoto("return")
    /\ UNCHANGED <<now, commits, backups, clock, current, inv, target, sel, pre>>
    /\ Noted
    /\ UNCHANGED runVars

\* cleanupBackupBranch: one await git.deleteLocalBranch(branch) of the loop;
\* a rejection is caught by the function's try/catch and ends the loop
A_Delete ==
    /\ pc = "a_delete"
    /\ \E ok \in BOOLEAN :
        /\ calls' = Append(calls, Call("deleteLocalBranch", {Head(todo)}, ok))
        /\ IF ok
           THEN /\ backups' = SelectSeq(backups, LAMBDA b : b # Head(todo))
                /\ todo' = Tail(todo)
                /\ AdvGoto(IF Tail(todo) = <<>> THEN "return" ELSE "a_delete")
           ELSE /\ todo' = <<>>
                /\ AdvGoto("return")
                /\ UNCHANGED backups
    /\ UNCHANGED <<now, commits, clock, current, inv, target, sel, pre>>
    /\ Noted
    /\ UNCHANGED runVars

\* removeCommitsUsingFilter: await git.raw(['filter-branch', ...])
A_Filter ==
    /\ pc = "a_filter"
    /\ \E ok \in BOOLEAN :
        /\ calls' = Append(calls, Call("filter-branch", Hashes(sel), ok))
        /\ commits' = IF ok THEN Excise(commits, Hashes(sel)) ELSE commits
        /\ todo' = IF AfterFilter(ok) = "a_rebase" THEN sel ELSE todo
        /\ AdvGoto(AfterFilter(ok))
    /\ UNCHANGED <<now, backups, clock, current, inv, target, sel, pre>>
    /\ Noted
    /\ UNCHANGED runVars

\* removeCommitsUsingFilter: await git.push(['-f', 'origin', 'main'])
A_Push ==
    /\ pc = "a_push"
    /\ \E ok \in BOOLEAN :
        /\ calls' = Append(calls, Call("push", {}, ok))
        /\ todo' = IF AfterPush(ok) = "a_rebase" THEN sel ELSE todo
        /\ AdvGoto(AfterPush(ok))
    /\ UNCHANGED <<now, commits, backups, clock, current, inv, target, sel, pre>>
    /\ Noted
    /\ UNCHANGED runVars

\* removeCommitsUsingRebase: one iteration of the for loop
A_Rebase ==
    /\ pc = "a_rebase"
    /\ \E ok \in BOOLEAN :
        /\ calls' = Append(calls, Call("rebase", {Head(todo).hash}, ok))
        /\ commits' = IF ok THEN Excise(commits, {Head(todo).hash}) ELSE commits
        /\ todo' = RebaseRest(todo, ok)
        /\ AdvGoto(IF RebaseRest(todo, ok) = <<>> THEN "return" ELSE "a_rebase")
    /\ UNCHANGED <<now, backups, clock, current, inv, target, sel, pre>>
    /\ Noted
    /\ UNCHANGED runVars

(***************************************************************************)
(* removeCommit.js                                                         *)
(***************************************************************************)
\* the outer catch of the basic and single-commit entry points logs the
\* error and lets the function return
Swallow(msg) ==
    /\ pc' = "done"
    /\ outcome' = "returned"
    /\ errMsg' = msg

Return ==
    /\ pc' = "done"
    /\ outcome' = "returned"
    /\ errMsg' = errMsg

StartBasic(x, y, force) ==
    /\ Begin([entry |-> "basic", x |-> x, y |-> y, dateStr |-> <<>>,
              force |-> force, interactive |-> FALSE, dryRun |-> FALSE,
              backup |-> FALSE])
    /\ IF ValidationError(x, y) # ""
       THEN /\ Swallow(ValidationError(x, y))
            /\ target' = <<>>
       ELSE /\ pc' = "b_log"
            /\ outcome' = "pending"
            /\ errMsg' = ""
            /\ target' = TargetDateStr(x, y, now)
    /\ UNCHANGED <<now, commits, backups, clock, current, rlClosed>>
    /\ Noted
    /\ UNCHANGED runVars

\* await git.log(), the filter, the empty and !force returns
B_Log ==
    /\ pc = "b_log"
    /\ \E ok \in BOOLEAN :
        /\ calls' = Append(calls, Call("log", {}, ok))
        /\ IF ~ok
           THEN /\ Swallow("git")
                /\ UNCHANGED <<sel, todo>>
           ELSE /\ sel' = SelectByDate(commits, target)
                /\ IF Len(SelectByDate(commits, target)) = 0 \/ ~inv.force
                   THEN /\ Return
                        /\ UNCHANGED todo
                   ELSE /\ todo' = SelectByDate(commits, target)
                        /\ pc' = "b_rebase"
                        /\ UNCHANGED <<outcome, errMsg>>
    /\ UNCHANGED <<now, commits, backups, clock, current, rlClosed, inv, target, pre>>
    /\ Noted
    /\ UNCHANGED runVars

\* one iteration of `for (const commit of commitsToRemove)
\*                       await removeCommitByHash(commit.hash)`
B_Rebase ==
    /\ pc = "b_rebase"
    /\ \E ok \in BOOLEAN :
        /\ calls' = Append(calls, Call("rebase", {Head(todo).hash}, ok))
        /\ commits' = IF ok THEN Excise(commits, {Head(todo).hash}) ELSE commits
        /\ todo' = BasicRest(todo, ok)
        /\ IF ~ok THEN Swallow("git")
           ELSE IF BasicRest(todo, ok) = <<>> THEN Return
           ELSE UNCHANGED <<pc, outcome, errMsg>>
    /\ UNCHANGED <<now, backups, clock, current, rlClosed, inv, target, sel, pre>>
    /\ Noted
    /\ UNCHANGED runVars

(***************************************************************************)
(* Single-commit script                                                    *)
(***************************************************************************)
StartSingle(x, y, force) ==
    /\ Begin([entry |-> "single", x |-> x, y |-> y, dateStr |-> <<>>,
              force |-> force, interactive |-> FALSE, dryRun |-> FALSE,
              backup |-> FALSE])
    /\ IF ValidationError(x, y) # ""
       THEN /\ Swallow(ValidationError(x, y))
            /\ target' = <<>>
       ELSE /\ pc' = "s_log"
            /\ outcome' = "pending"
            /\ errMsg' = ""
            /\ target' = TargetDateStr(x, y, now)
    /\ UNCHANGED <<now, commits, backups, clock, current, rlClosed>>
    /\ Noted
    /\ UNCHANGED runVars

StartByDate(dateStr, force) ==
    /\ Begin([entry |-> "bydate", x |-> 0, y |-> 0, dateStr |-> dateStr,
              force |-> force, interactive |-> FALSE, dryRun |-> FALSE,
              backup |-> FALSE])
    /\ pc' = "s_log"
    /\ outcome' = "pending"
    /\ errMsg' = ""
    /\ target' = dateStr
    /\ UNCHANGED <<now, commits, backups, clock, current, rlClosed>>
    /\ Noted
    /\ UNCHANGED runVars

\* await git.log(), the filter, commitToRemove, the empty and !force returns
\* (removeSingleCommitByCoordinates and removeCommitByDate read alike here)
S_Log ==
    /\ pc = "s_log"
    /\ \E ok \in BOOLEAN :
        /\ calls' = Append(calls, Call("log", {}, ok))
        /\ IF ~ok
           THEN /\ Swallow("git")
                /\ UNCHANGED <<sel, todo>>
           ELSE /\ sel' = SelectByDate(commits, target)
                /\ IF Len(SelectByDate(commits, target)) = 0 \/ ~inv.force
                   THEN /\ Return
                        /\ UNCHANGED todo
                   ELSE /\ todo' = <<CommitToRemove(SelectByDate(commits, target))>>
                        /\ pc' = "s_rebase"
                        /\ UNCHANGED <<outcome, errMsg>>
    /\ UNCHANGED <<now, commits, backups, clock, current, rlClosed, inv, target, pre>>
    /\ Noted
    /\ UNCHANGED runVars

\* await removeSingleCommitByHash(commitToRemove.hash)
S_Rebase ==
    /\ pc = "s_rebase"
    /\ \E ok \in BOOLEAN :
        /\ calls' = Append(calls, Call("rebase", {Head(todo).hash}, ok))
        /\ commits' = IF ok THEN Excise(commits, {Head(todo).hash}) ELSE commits
        /\ todo' = <<>>
        /\ IF ok THEN Return ELSE Swallow("git")
    /\ UNCHANGED <<now, backups, clock, current, rlClosed, inv, target, sel, pre>>
    /\ Noted
    /\ UNCHANGED runVars

(***************************************************************************)
(* The caller resumes after the awaited invocation has settled.            *)
(***************************************************************************)
Settle ==
    /\ pc = "done"
    /\ pc' = "idle"
    /\ inv' = NoInv
    /\ target' = <<>>
    /\ sel' = <<>>
    /\ todo' = <<>>
    /\ calls' = <<>>
    /\ outcome' = "pending"
    /\ errMsg' = ""
    /\ pre' = Repo
    /\ UNCHANGED <<now, commits, backups, clock, current, rlClosed, faults>>
    /\ UNCHANGED runVars

(***************************************************************************)
(* A new run of a script: the module-level readline interface is created   *)
(* afresh; the repository stays as the previous run left it.               *)
(***************************************************************************)
NewProcess ==
    /\ (pc = "idle" /\ rlClosed) \/ pc = "hung"
    /\ rlClosed' = FALSE
    /\ pc' = "idle"
    /\ inv' = NoInv
    /\ target' = <<>>
    /\ sel' = <<>>
    /\ todo' = <<>>
    /\ calls' = <<>>
    /\ outcome' = "pending"
    /\ errMsg' = ""
    /\ pre' = Repo
    /\ UNCHANGED <<now, commits, backups, clock, current>>
    /\ UNCHANGED <<faults, runVars>>

Next ==
    \/ \E c \in Coords, f, i, d, b \in BOOLEAN : StartAdv(c[1], c[2], f, i, d, b)
    \/ A_CheckoutLocalBranch
    \/ A_CheckoutMain
    \/ A_Log
    \/ A_Confirm
    \/ A_Cleanup
    \/ A_Delete
    \/ A_Filter
    \/ A_Push
    \/ A_Rebase
    \/ \E c \in Coords, f \in BOOLEAN : StartBasic(c[1], c[2], f)
    \/ B_Log
    \/ B_Rebase
    \/ \E c \in Coords, f \in BOOLEAN : StartSingle(c[1], c[2], f)
    \/ \E ds \in DateArgs(now), f \in BOOLEAN : StartByDate(ds, f)
    \/ S_Log
    \/ S_Rebase
    \/ Settle
    \/ NewProcess

Spec == Init /\ [][Next]_vars

(***************************************************************************)
(* Vocabulary of the properties                                            *)
(***************************************************************************)
MutatingOps == {"checkoutLocalBranch", "checkout", "deleteLocalBranch",
                "filter-branch", "rebase", "push"}
RewriteOps == {"filter-branch", "rebase", "push"}

CallsOf(ops) == SelectSeq(calls, LAMBDA c : c.op \in ops)

\* the invocation has read the commit list
Listed == \E i \in 1..Len(calls) : calls[i].op = "log" /\ calls[i].ok

\* the user answered the confirmation prompt in the negative
Declined == \E i \in 1..Len(calls) : calls[i].op = "question" /\ ~calls[i].ok

OutOfRange == ValidationError(inv.x, inv.y) # ""

\* the axis an error message names
AxisOf(msg) ==
    IF msg = "X coordinate must be between 0 and 54 (weeks)" THEN "X"
    ELSE IF msg = "Y coordinate must be between 0 and 6 (days)" THEN "Y"
    ELSE "none"

\* the date the invocation resolves its arguments to
ResolvedDate ==
    IF inv.entry = "bydate" THEN inv.dateStr
    ELSE TargetDateStr(inv.x, inv.y, now)

\* the commits of the history the invocation started on that fall on d
MatchesBefore(d) == SelectByDate(pre.commits, d)

\* the backup branches are the most recently created ones
MostRecentKept ==
    \A i \in 1..Len(backups) : backups[i] = clock - Len(backups) + i

(***************************************************************************)
(* C1. A dry run of the advanced removeCommitByCoordinates issues no       *)
(* mutating History Store call (no backup branch created or deleted, no    *)
(* filter-branch, rebase or push), whatever the other options, the number  *)
(* of matches and the number of backup branches.  Stated here for runs in  *)
(* which no store call was ever rejected.                                  *)
(***************************************************************************)
C1_DryRunNeverMutates ==
    (inv.entry = "adv" /\ inv.dryRun /\ ~faults)
        => CallsOf(MutatingOps) = <<>>

(***************************************************************************)
(* C2. Every coordinate entry point called with an out-of-range week or    *)
(* day raises an error to its caller whose message names the violated      *)
(* axis, and makes no History Store call.                                  *)
(***************************************************************************)
C2_OutOfRangeRaises ==
    (pc = "done" /\ inv.entry \in {"adv", "basic", "single"} /\ OutOfRange)
        => /\ outcome = "threw"
           /\ AxisOf(errMsg) =
                 (IF inv.x < 0 \/ inv.x > MaxWeek THEN "X" ELSE "Y")
           /\ calls = <<>>

(***************************************************************************)
(* C3. In the advanced removeCommitByCoordinates with dryRun=false,        *)
(* interactive=true, force=false and at least one match, a negative answer *)
(* means no mutating History Store call during the invocation, which       *)
(* returns without an error.  Stated for runs without rejected store calls.*)
(***************************************************************************)
C3_DeclineNeverMutates ==
    (/\ pc = "done" /\ inv.entry = "adv"
     /\ ~inv.dryRun /\ inv.interactive /\ ~inv.force
     /\ Len(sel) >= 1 /\ Declined /\ ~faults)
        => /\ CallsOf(MutatingOps) = <<>>
           /\ outcome = "returned"

(***************************************************************************)
(* C4. When no commit falls on the resolved date, every removal entry      *)
(* point returns normally and leaves the History Store as it was: same     *)
(* commits, same branches, same current branch.  Stated for runs without   *)
(* rejected store calls.                                                   *)
(***************************************************************************)
C4_NoMatchNoChange ==
    (/\ pc = "done" /\ inv.entry # "none"
     /\ (inv.entry # "bydate" => ~OutOfRange)
     /\ MatchesBefore(ResolvedDate) = <<>> /\ ~faults)
        => /\ outcome = "returned"
           /\ Repo = pre

(***************************************************************************)
(* C5. The selection of the advanced removeCommitByCoordinates is exactly  *)
(* the sub-sequence of the listed commits that fall on the target date, in *)
(* listing order, each listed commit at most once.                         *)
(***************************************************************************)
C5_SelectionIsFilter ==
    (inv.entry = "adv" /\ Listed) => sel = MatchesBefore(target)

(***************************************************************************)
(* C6. removeSingleCommitByCoordinates and removeCommitByDate with         *)
(* force=true, on a listed history with N >= 1 commits on the target date, *)
(* issue exactly one splice, of the first matching commit in listing       *)
(* order; no other commit is passed to any rewrite call.                   *)
(***************************************************************************)
C6_SingleSplice ==
    inv.entry \in {"single", "bydate"} =>
        LET rew == CallsOf(RewriteOps)
            matching == MatchesBefore(target)
        IN  /\ Len(rew) <= 1
            /\ \A i \in 1..Len(rew) :
                 /\ rew[i].op = "rebase"
                 /\ Len(matching) >= 1
                 /\ rew[i].arg = {matching[1].hash}
            /\ (pc = "done" /\ inv.force /\ Listed /\ Len(matching) >= 1)
                 => Len(rew) = 1

\* a forced single-commit removal with two commits on the date has ended
C6_Witness ==
    /\ pc = "done" /\ inv.entry \in {"single", "bydate"} /\ inv.force
    /\ Len(MatchesBefore(target)) >= 2
    /\ Len(CallsOf({"rebase"})) = 1

(***************************************************************************)
(* C7. In removeCommitsUsingFilter the sequential splice is started if and *)
(* only if the bulk filter-branch rewrite failed; once started, a splice   *)
(* is attempted for every commit of the selection in selection order,      *)
(* whatever splices fail.                                                  *)
(***************************************************************************)
C7_FallbackSplices ==
    inv.entry = "adv" =>
        LET reb == CallsOf({"rebase"})
            fil == CallsOf({"filter-branch"})
        IN  /\ Len(fil) <= 1
            /\ reb # <<>> => (fil # <<>> /\ ~fil[1].ok)
            /\ Len(reb) <= Len(sel)
            /\ \A i \in 1..Len(reb) : reb[i].arg = {sel[i].hash}
            /\ (fil # <<>> /\ ~fil[1].ok) =>
                 (IF pc = "done" THEN Len(reb) = Len(sel) ELSE pc = "a_rebase")

\* the fallback has run over a selection of two different commits and the
\* first splice failed
C7_Witness ==
    /\ pc = "done" /\ inv.entry = "adv" /\ Cardinality(Hashes(sel)) >= 2
    /\ Len(CallsOf({"rebase"})) = Len(sel)
    /\ ~CallsOf({"rebase"})[1].ok

(***************************************************************************)
(* C8. The basic removeCommitByCoordinates with force=true attempts the    *)
(* removal of every commit of its selection: the number of                 *)
(* removeCommitByHash calls equals the size of the selection, whatever     *)
(* calls fail.                                                             *)
(***************************************************************************)
C8_BasicAttemptsAll ==
    (pc = "done" /\ inv.entry = "basic" /\ inv.force /\ Listed)
        => Len(CallsOf({"rebase"})) = Len(sel)

(***************************************************************************)
(* C9. In the advanced removal path a push is attempted only right after a *)
(* successful bulk filter-branch rewrite, and its failure is non-fatal: no *)
(* error is raised, no splice fallback starts, no further call is issued   *)
(* and the invocation ends as a successful removal.                        *)
(***************************************************************************)
C9_PushNonFatal ==
    inv.entry = "adv" =>
        \A i \in 1..Len(calls) : calls[i].op = "push" =>
            /\ i > 1
            /\ calls[i - 1].op = "filter-branch" /\ calls[i - 1].ok
            /\ i = Len(calls)
            /\ CallsOf({"rebase"}) = <<>>
            /\ pc = "done" /\ outcome = "returned" /\ errMsg = ""

\* an invocation whose push was rejected has ended
C9_Witness ==
    /\ pc = "done" /\ inv.entry = "adv"
    /\ calls # <<>>
    /\ calls[Len(calls)].op = "push" /\ ~calls[Len(calls)].ok

(***************************************************************************)
(* C10. After any sequence of completed invocations of the advanced        *)
(* removeCommitByCoordinates with backup enabled, at most 5 backup         *)
(* branches exist and they are the most recently created ones.  Stated for *)
(* sequences in which every invocation returned and no store call was      *)
(* rejected.                                                               *)
(***************************************************************************)
C10_AtMostFiveBackups ==
    (pc = "idle" /\ ~faults)
        => (Len(backups) <= KeepBackups /\ MostRecentKept)

(***************************************************************************)
(* C16. In a non-dry-run removal by the advanced removeCommitByCoordinates *)
(* a selected commit that could not be removed (bulk rewrite failed, its   *)
(* splice failed too) is surfaced in the outcome: the invocation does not  *)
(* end as an unqualified success.                                          *)
(***************************************************************************)
C16_FailureSurfaced ==
    (/\ pc = "done" /\ inv.entry = "adv" /\ ~inv.dryRun
     /\ \E i \in 1..Len(calls) : calls[i].op = "rebase" /\ ~calls[i].ok)
        => (outcome = "threw" \/ errMsg # "")

(***************************************************************************)
(* C19. In the advanced removeCommitByCoordinates with backup=true and     *)
(* dryRun=false every rewrite call is preceded, in the same invocation, by *)
(* the successful creation of a backup branch that points at the           *)
(* pre-removal history: the branch the backup was cut from is the branch   *)
(* the rewrite is applied to.  Stated for runs without rejected calls.     *)
(***************************************************************************)
C19_BackupBeforeRewrite ==
    (inv.entry = "adv" /\ inv.backup /\ ~inv.dryRun /\ ~faults) =>
        \A i \in 1..Len(calls) :
            calls[i].op \in {"filter-branch", "rebase"} =>
                /\ \E j \in 1..(i - 1) :
                     calls[j].op = "checkoutLocalBranch" /\ calls[j].ok
                /\ pre.current = current

\* the temporal half of C19 alone: a rewrite call is issued only after a
\* backup branch was created in the same invocation, so never when the
\* backup step failed
C19_OrderOnly ==
    (inv.entry = "adv" /\ inv.backup /\ ~inv.dryRun) =>
        \A i \in 1..Len(calls) :
            calls[i].op \in {"filter-branch", "rebase"} =>
                /\ calls[1].op = "checkoutLocalBranch" /\ calls[1].ok
                /\ calls[2].op = "checkout" /\ calls[2].ok
                /\ i > 2

(***************************************************************************)
(* Date resolution on its own: the chain                                   *)
(*   moment().subtract(1, "y").add(1, "d").add(x, "w").add(y, "d")         *)
(*           .format("YYYY-MM-DD")                                         *)
(* applied to every in-range coordinate and a set of reference dates that  *)
(* includes a leap day, a year end and the documented example.             *)
(***************************************************************************)
ResolveRefs == {<<2025, 1, 15>>, <<2024, 2, 29>>, <<2024, 12, 31>>,
                <<2025, 3, 1>>, <<2023, 6, 18>>}

InitResolve ==
    /\ now \in ResolveRefs
    /\ commits = <<>>
    /\ backups = <<>>
    /\ clock = 0
    /\ current = "main"
    /\ rlClosed = FALSE
    /\ pc = "idle"
    /\ inv = NoInv
    /\ target = <<>>
    /\ sel = <<>>
    /\ todo = <<>>
    /\ calls = <<>>
    /\ outcome = "pending"
    /\ errMsg = ""
    /\ pre = Repo
    /\ faults = FALSE
    /\ run = NoRun
    /\ flows = <<>>
    /\ trace = <<>>

\* the validation passes and targetDateStr is computed
Resolve(x, y) ==
    /\ pc = "idle"
    /\ ValidationError(x, y) = ""
    /\ inv' = [NoInv EXCEPT !.entry = "resolve", !.x = x, !.y = y]
    /\ target' = TargetDateStr(x, y, now)
    /\ pc' = "resolved"
    /\ UNCHANGED <<now, commits, backups, clock, current, rlClosed, sel, todo,
                   calls, outcome, errMsg, pre, faults>>
    /\ UNCHANGED runVars

\* the next call resolves afresh
ResolveAgain ==
    /\ pc = "resolved"
    /\ pc' = "idle"
    /\ inv' = NoInv
    /\ target' = <<>>
    /\ UNCHANGED <<now, commits, backups, clock, current, rlClosed, sel, todo,
                   calls, outcome, errMsg, pre, faults>>
    /\ UNCHANGED runVars

NextResolve ==
    \/ \E x \in 0..MaxWeek, y \in 0..MaxDay : Resolve(x, y)
    \/ ResolveAgain

SpecResolve == InitResolve /\ [][NextResolve]_vars

\* calendar stepping, a day or a month end at a time, independent of the
\* day-number arithmetic used by TargetDay
NextDate(d) ==
    IF d[3] < DaysInMonth(d[1], d[2]) THEN <<d[1], d[2], d[3] + 1>>
    ELSE IF d[2] < 12 THEN <<d[1], d[2] + 1, 1>>
    ELSE <<d[1] + 1, 1, 1>>

RECURSIVE DaysAfter(_, _)
DaysAfter(d, n) ==
    LET left == DaysInMonth(d[1], d[2]) - d[3]
    IN  IF n <= left THEN <<d[1], d[2], d[3] + n>>
        ELSE DaysAfter(NextDate(<<d[1], d[2], d[3] + left>>), n - left - 1)

\* the reference date minus one calendar year plus one day
Anchor(ref) == NextDate(SubtractYear(ref))

\* weekday of a day number, 0 = Sunday (day 0 is Thursday 1970-01-01)
Weekday(z) == (z + 4) % 7

(***************************************************************************)
(* C13. For every week in [0,54], day in [0,6] and reference date the      *)
(* resolved date is the date exactly week*7+day days after the anchor      *)
(* (reference date minus one calendar year plus one day); for reference    *)
(* date 2025-01-15, (0,0) resolves to 2024-01-16 and (1,2) to 2024-01-25.  *)
(***************************************************************************)
C13_ResolveIsAnchorPlusOffset ==
    pc = "resolved" =>
        /\ target = DaysAfter(Anchor(now), 7 * inv.x + inv.y)
        /\ target = TargetDateStr(inv.x, inv.y, now)
        /\ (now = <<2025, 1, 15>> /\ inv.x = 0 /\ inv.y = 0)
               => target = <<2024, 1, 16>>
        /\ (now = <<2025, 1, 15>> /\ inv.x = 1 /\ inv.y = 2)
               => target = <<2024, 1, 25>>

C13_Witness ==
    /\ pc = "resolved"
    /\ now = <<2025, 1, 15>>
    /\ inv.x = 1 /\ inv.y = 2
    /\ target = <<2024, 1, 25>>

(***************************************************************************)
(* C14. The day coordinate is a weekday index with 0 = Sunday: the date    *)
(* resolved from (week, y) falls on weekday y.                             *)
(***************************************************************************)
C14_DayIsWeekday ==
    pc = "resolved" => Weekday(TargetDay(inv.x, inv.y, now)) = inv.y

(***************************************************************************)
(* Batches and command-line runs.  A run starts one or more invocations    *)
(* ("flows"); each flow is an invocation of an entry point that advances   *)
(* one awaited git call at a time, exactly as in the single-invocation     *)
(* machine above, and `trace` records every git call of the run in the     *)
(* order the calls were made, tagged with the flow that made it.           *)
(***************************************************************************)
\* coordinates handed to the command line
FlowCoords == {<<0, 0>>, <<0, 1>>, <<55, 0>>}

\* lists of coordinates handed to the batch functions: two distinct cells
\* in both orders, the same cell twice, an out-of-range cell first and
\* last, and a single cell
BatchCoords == {<<<<0, 0>>, <<0, 1>>>>, <<<<0, 1>>, <<0, 0>>>>,
                <<<<0, 0>>, <<0, 0>>>>, <<<<55, 0>>, <<0, 0>>>>,
                <<<<0, 0>>, <<55, 0>>>>, <<<<0, 1>>>>}

BatchKinds == {"pattern", "multiple", "singles"}

\* the options object a batch is called with
BatchOpts == [force : BOOLEAN, dryRun : BOOLEAN, interactive : BOOLEAN,
              preview : {FALSE}, debug : {FALSE}]

\* removeCommitPattern: { ...options, interactive: false, backup: false }
PatternOptions(o) ==
    [force |-> o.force, dryRun |-> o.dryRun, interactive |-> FALSE,
     backup |-> FALSE]

\* the boolean `force` parameter of the basic and single-commit entry points
ForceOnly(force) ==
    [force |-> force, dryRun |-> FALSE, interactive |-> FALSE,
     backup |-> FALSE]

\* which entry point a batch calls for each coordinate, and with what
EntryOf(kind) ==
    IF kind = "pattern" THEN "adv"
    ELSE IF kind = "multiple" THEN "basic" ELSE "single"

OptionsOf(kind, o) ==
    IF kind = "pattern" THEN PatternOptions(o) ELSE ForceOnly(o.force)

LoopNeverAwaits(kind) == FALSE

\* `for (const coord of ...) { await remove...(coord.x, coord.y, ...) }`
LoopAwaits(kind) == kind \in BatchKinds

\* an entry point called with (x, y): the synchronous part up to the first
\* await.  The advanced module rethrows the validation error, the basic and
\* single-commit ones log it and return, debugCommitDates does not validate.
NewFlow(entry, x, y, o) ==
    LET bad == entry # "debug" /\ ValidationError(x, y) # ""
    IN  [entry |-> entry, x |-> x, y |-> y, o |-> o,
         target |-> IF bad THEN <<>> ELSE TargetDateStr(x, y, now),
         sel |-> <<>>, todo |-> <<>>,
         pc |-> IF bad THEN "done"
                ELSE IF entry = "adv" THEN "a_log"
                ELSE IF entry = "basic" THEN "b_log"
                ELSE IF entry = "single" THEN "s_log" ELSE "d_log",
         outcome |-> IF ~bad THEN "pending"
                     ELSE IF entry = "adv" THEN "threw" ELSE "returned",
         err |-> IF bad THEN ValidationError(x, y) ELSE ""]

FlowReturn(fl) == [fl EXCEPT !.pc = "done", !.outcome = "returned"]
FlowSwallow(fl, msg) ==
    [fl EXCEPT !.pc = "done", !.outcome = "returned", !.err = msg]
FlowThrow(fl, msg) ==
    [fl EXCEPT !.pc = "done", !.outcome = "threw", !.err = msg]
FlowGoto(fl, next) ==
    IF next = "return" THEN FlowReturn(fl) ELSE [fl EXCEPT !.pc = next]

\* the flow after `await git.log(...)` settled
FlowAfterLog(fl, all, ok) ==
    IF fl.entry = "adv"
    THEN IF ok
         THEN FlowGoto([fl EXCEPT !.sel = SelectAdv(all, fl.target)],
                       AfterSelect(SelectAdv(all, fl.target), fl.o))
         ELSE FlowThrow(fl, "git")
    ELSE IF fl.entry = "debug"
    THEN IF ok THEN FlowReturn(fl) ELSE FlowThrow(fl, "git")
    ELSE IF ~ok THEN FlowSwallow(fl, "git")
    ELSE LET matching == SelectByDate(all, fl.target)
         IN  IF Len(matching) = 0 \/ ~fl.o.force
             THEN FlowReturn([fl EXCEPT !.sel = matching])
             ELSE IF fl.entry = "basic"
             THEN [fl EXCEPT !.sel = matching, !.todo = matching,
                             !.pc = "b_rebase"]
             ELSE [fl EXCEPT !.sel = matching,
                             !.todo = <<CommitToRemove(matching)>>,
                             !.pc = "s_rebase"]

\* the flow after one `git.raw(['rebase', '--onto', ...])` settled
FlowAfterRebase(fl, ok) ==
    IF fl.entry = "adv"
    THEN FlowGoto([fl EXCEPT !.todo = RebaseRest(fl.todo, ok)],
                  IF RebaseRest(fl.todo, ok) = <<>> THEN "return"
                  ELSE "a_rebase")
    ELSE IF fl.entry = "basic"
    THEN IF ~ok THEN FlowSwallow([fl EXCEPT !.todo = BasicRest(fl.todo, ok)],
                                 "git")
         ELSE IF BasicRest(fl.todo, ok) = <<>>
              THEN FlowReturn([fl EXCEPT !.todo = <<>>])
              ELSE [fl EXCEPT !.todo = BasicRest(fl.todo, ok)]
    ELSE IF ok THEN FlowReturn([fl EXCEPT !.todo = <<>>])
         ELSE FlowSwallow([fl EXCEPT !.todo = <<>>], "git")

TraceCall(f, op, arg, ok) == [flow |-> f, op |-> op, arg |-> arg, ok |-> ok]

mainVars == <<now, backups, clock, current, rlClosed, pc, inv, target, sel,
              todo, calls, outcome, errMsg, pre, faults>>

InitFlows ==
    /\ now \in RefDates
    /\ commits \in Histories(now)
    /\ backups = <<>>
    /\ clock = 0
    /\ current = "main"
    /\ rlClosed = FALSE
    /\ pc = "idle"
    /\ inv = NoInv
    /\ target = <<>>
    /\ sel = <<>>
    /\ todo = <<>>
    /\ calls = <<>>
    /\ outcome = "pending"
    /\ errMsg = ""
    /\ pre = Repo
    /\ faults = FALSE
    /\ run = NoRun
    /\ flows = <<>>
    /\ trace = <<>>

Running == run.status = "running"

FlowDone(f) == flows[f].pc = "done"

\* a batch function is called: the loop's first iteration calls the entry
\* point for the first coordinate
StartBatch(kind, coords, o) ==
    /\ run.kind = "none"
    /\ kind # "pattern" => (~o.dryRun /\ ~o.interactive)
    /\ run' = [kind |-> kind, coords |-> coords, opts |-> o,
               status |-> "running", exit |-> 0]
    /\ flows' = <<NewFlow(EntryOf(kind), coords[1][1], coords[1][2],
                          OptionsOf(kind, o))>>
    /\ trace' = <<>>
    /\ UNCHANGED commits
    /\ UNCHANGED mainVars

\* the loop resumes after its await: a rejection leaves the loop and rejects
\* the batch, otherwise the next coordinate is taken or the batch resolves
BatchNext ==
    /\ Running
    /\ run.kind \in BatchKinds
    /\ LoopAwaits(run.kind) => FlowDone(Len(flows))
    /\ IF FlowDone(Len(flows)) /\ flows[Len(flows)].outcome = "threw"
       THEN /\ run' = [run EXCEPT !.status = "rejected"]
            /\ UNCHANGED flows
       ELSE IF Len(flows) < Len(run.coords)
       THEN /\ flows' = Append(flows,
                   NewFlow(EntryOf(run.kind),
                           run.coords[Len(flows) + 1][1],
                           run.coords[Len(flows) + 1][2],
                           OptionsOf(run.kind, run.opts)))
            /\ UNCHANGED run
       ELSE /\ \A f \in 1..Len(flows) : FlowDone(f)
            /\ run' = [run EXCEPT !.status = "completed"]
            /\ UNCHANGED flows
    /\ UNCHANGED <<commits, trace>>
    /\ UNCHANGED mainVars

\* node removeSingleCommit.js <x> <y> [--force] [--preview] [--debug]: the
\* module body runs the first command line block, the --debug block and the
\* second command line block one after the other; none of the calls is
\* awaited
StartCli(x, y, force, preview, debug) ==
    /\ run.kind = "none"
    /\ run' = [kind |-> "cli", coords |-> <<<<x, y>>>>,
               opts |-> [force |-> force, dryRun |-> FALSE,
                         interactive |-> FALSE, preview |-> preview,
                         debug |-> debug],
               status |-> "running", exit |-> 0]
    /\ LET single == NewFlow("single", x, y,
                             ForceOnly(IF preview THEN FALSE ELSE force))
           dbg == NewFlow("debug", x, y, ForceOnly(FALSE))
       IN  flows' = <<single>>
                    \o (IF debug THEN <<dbg>> ELSE <<>>)
                    \o <<IF debug THEN dbg ELSE single>>
    /\ trace' = <<>>
    /\ UNCHANGED commits
    /\ UNCHANGED mainVars

\* the process ends: with status 1 on an unhandled rejection, with status 0
\* once nothing is pending
CliExit ==
    /\ Running
    /\ run.kind = "cli"
    /\ IF \E f \in 1..Len(flows) : FlowDone(f) /\ flows[f].outcome = "threw"
       THEN run' = [run EXCEPT !.status = "rejected", !.exit = 1]
       ELSE /\ \A f \in 1..Len(flows) : FlowDone(f)
            /\ run' = [run EXCEPT !.status = "completed", !.exit = 0]
    /\ UNCHANGED <<commits, flows, trace>>
    /\ UNCHANGED mainVars

\* await git.log(...) of flow f settles
F_Log(f) ==
    /\ Running
    /\ flows[f].pc \in {"a_log", "b_log", "s_log", "d_log"}
    /\ \E ok \in BOOLEAN :
        /\ trace' = Append(trace, TraceCall(f, "log", {}, ok))
        /\ flows' = [flows EXCEPT ![f] = FlowAfterLog(@, commits, ok)]
    /\ UNCHANGED <<commits, run>>
    /\ UNCHANGED mainVars

\* await git.raw(['filter-branch', ...]) of flow f settles
F_Filter(f) ==
    /\ Running
    /\ flows[f].pc = "a_filter"
    /\ \E ok \in BOOLEAN :
        /\ trace' = Append(trace, TraceCall(f, "filter-branch",
                                            Hashes(flows[f].sel), ok))
        /\ commits' = IF ok THEN Excise(commits, Hashes(flows[f].sel))
                      ELSE commits
        /\ flows' = [flows EXCEPT ![f] =
               FlowGoto([@ EXCEPT !.todo = IF AfterFilter(ok) = "a_rebase"
                                           THEN flows[f].sel ELSE @],
                        AfterFilter(ok))]
    /\ UNCHANGED run
    /\ UNCHANGED mainVars

\* await git.push(['-f', 'origin', 'main']) of flow f settles
F_Push(f) ==
    /\ Running
    /\ flows[f].pc = "a_push"
    /\ \E ok \in BOOLEAN :
        /\ trace' = Append(trace, TraceCall(f, "push", {}, ok))
        /\ flows' = [flows EXCEPT ![f] =
               FlowGoto([@ EXCEPT !.todo = IF AfterPush(ok) = "a_rebase"
                                           THEN flows[f].sel ELSE @],
                        AfterPush(ok))]
    /\ UNCHANGED <<commits, run>>
    /\ UNCHANGED mainVars

\* await git.raw(['rebase', '--onto', ...]) of flow f settles
F_Rebase(f) ==
    /\ Running
    /\ flows[f].pc \in {"a_rebase", "b_rebase", "s_rebase"}
    /\ \E ok \in BOOLEAN :
        /\ trace' = Append(trace, TraceCall(f, "rebase",
                                            {Head(flows[f].todo).hash}, ok))
        /\ commits' = IF ok
                      THEN Excise(commits, {Head(flows[f].todo).hash})
                      ELSE commits
        /\ flows' = [flows EXCEPT ![f] = FlowAfterRebase(@, ok)]
    /\ UNCHANGED run
    /\ UNCHANGED mainVars

NextFlows ==
    \/ \E k \in BatchKinds, cs \in BatchCoords, o \in BatchOpts :
          StartBatch(k, cs, o)
    \/ BatchNext
    \/ \E c \in FlowCoords, f, p, d \in BOOLEAN : StartCli(c[1], c[2], f, p, d)
    \/ CliExit
    \/ \E f \in 1..Len(flows) : F_Log(f)
    \/ \E f \in 1..Len(flows) : F_Filter(f)
    \/ \E f \in 1..Len(flows) : F_Push(f)
    \/ \E f \in 1..Len(flows) : F_Rebase(f)

SpecFlows == InitFlows /\ [][NextFlows]_vars

(***************************************************************************)
(* Vocabulary of the properties of runs                                    *)
(***************************************************************************)
TraceIdx == 1..Len(trace)

\* git.log of flow f was rejected: the history could not be queried
StoreUnavailable(f) ==
    \E i \in TraceIdx : trace[i].flow = f /\ trace[i].op = "log" /\ ~trace[i].ok

\* the commits the run has removed so far
RemovedByRun ==
    UNION {trace[i].arg : i \in {k \in TraceIdx :
                /\ trace[k].op \in {"filter-branch", "rebase"}
                /\ trace[k].ok}}

\* removal flows of the single-commit script that have started and not ended
SinglesInProgress ==
    {f \in 1..Len(flows) : flows[f].entry = "single" /\ ~FlowDone(f)}

\* no git call of the run was rejected
CleanRun == \A k \in TraceIdx : trace[k].ok

RunEnded == run.status \in {"completed", "rejected"}

CliOutOfRange ==
    ValidationError(run.coords[1][1], run.coords[1][2]) # ""

(***************************************************************************)
(* C11. One command-line run of the single-commit script with two          *)
(* coordinate arguments has at most one removal flow in progress at any    *)
(* time, and removes at most one commit.                                   *)
(***************************************************************************)
C11_OneFlowAtATime ==
    run.kind = "cli" =>
        /\ Cardinality(SinglesInProgress) <= 1
        /\ Cardinality(RemovedByRun) <= 1

(***************************************************************************)
(* C12. removeCommitPattern called with interactive=true, force=false and  *)
(* dryRun=false issues a rewrite call (filter-branch, rebase, push) for a  *)
(* coordinate only after the user was asked and answered affirmatively     *)
(* for that coordinate.  Stated for runs without rejected calls.           *)
(***************************************************************************)
C12_PatternAsksFirst ==
    (/\ run.kind = "pattern"
     /\ run.opts.interactive /\ ~run.opts.force /\ ~run.opts.dryRun
     /\ CleanRun) =>
        \A i \in TraceIdx :
            trace[i].op \in RewriteOps =>
                \E j \in 1..(i - 1) :
                    /\ trace[j].flow = trace[i].flow
                    /\ trace[j].op = "question"
                    /\ trace[j].ok

(***************************************************************************)
(* C15. In every multi-coordinate batch the history being unavailable is   *)
(* the only condition that stops the batch before all coordinates were     *)
(* processed, and it does stop it: once the batch has ended, a coordinate  *)
(* was left unprocessed exactly when the listing of an earlier coordinate  *)
(* was rejected.                                                           *)
(***************************************************************************)
C15_OnlyStoreUnavailabilityStops ==
    (run.kind \in BatchKinds /\ RunEnded) =>
        (Len(flows) < Len(run.coords)
            <=> \E f \in 1..Len(flows) :
                    f < Len(run.coords) /\ StoreUnavailable(f))

(***************************************************************************)
(* C17. A command-line run ends with a failure outcome (rejected top-level *)
(* call, non-zero exit status) when the week or day is out of range, and   *)
(* with exit status zero when the coordinates are valid, the history could *)
(* be listed and no commit matches the resolved date.                      *)
(***************************************************************************)
C17_ExitStatus ==
    (run.kind = "cli" /\ RunEnded) =>
        /\ CliOutOfRange => (run.status = "rejected" /\ run.exit # 0)
        /\ (/\ ~CliOutOfRange
            /\ \A f \in 1..Len(flows) : ~StoreUnavailable(f)
            /\ RemovedByRun = {}
            /\ SelectByDate(commits, TargetDateStr(run.coords[1][1],
                                                   run.coords[1][2], now))
                 = <<>>)
               => run.exit = 0

(***************************************************************************)
(* C18. A command-line run of the single-commit script with --debug only   *)
(* reads the history: whatever the other flags and the coordinates, no     *)
(* rewrite call is issued during the run.  Stated for runs without         *)
(* rejected calls.                                                         *)
(***************************************************************************)
C18_DebugReadsOnly ==
    (run.kind = "cli" /\ run.opts.debug /\ CleanRun) =>
        \A i \in TraceIdx : trace[i].op \notin RewriteOps

(***************************************************************************)
(* C20. A batch handles its coordinates one at a time in the order given:  *)
(* flow k is the invocation for the k-th coordinate, every git call of     *)
(* coordinate i is made before the first call of coordinate i+1, only the  *)
(* last flow started can be in progress, and the commit list a later       *)
(* coordinate works on was read after the rewrites of the earlier ones (it *)
(* holds no commit an earlier coordinate removed).                         *)
(***************************************************************************)
C20_OneCoordinateAtATime ==
    run.kind \in BatchKinds =>
        /\ Len(flows) <= Len(run.coords)
        /\ \A f \in 1..Len(flows) :
              /\ flows[f].x = run.coords[f][1]
              /\ flows[f].y = run.coords[f][2]
              /\ f < Len(flows) => FlowDone(f)
        /\ \A i, j \in TraceIdx : i < j => trace[i].flow <= trace[j].flow
        /\ \A i \in TraceIdx, g \in 1..Len(flows) :
              (/\ trace[i].flow < g
               /\ trace[i].op \in {"filter-branch", "rebase"}
               /\ trace[i].ok)
                  => Hashes(flows[g].sel) \cap trace[i].arg = {}

\* two coordinates naming the same cell with two commits on its date: the
\* first flow removed one, the second listed afterwards and selected the other
C20_Witness ==
    /\ run.kind = "singles"
    /\ Len(flows) = 2
    /\ run.coords[1] = run.coords[2]
    /\ \E i \in TraceIdx :
          /\ trace[i].flow = 1 /\ trace[i].op = "rebase" /\ trace[i].ok
          /\ flows[2].sel # <<>>
          /\ Hashes(flows[2].sel) \cap trace[i].arg = {}
    /\ \E j \in TraceIdx : trace[j].flow = 2 /\ trace[j].op = "rebase"

(***************************************************************************)
(* C21. Creating the backup branch in the advanced                         *)
(* removeCommitByCoordinates leaves the working position unchanged: once   *)
(* the backup step is over, the branch checked out is the branch that was  *)
(* checked out when the call started, so the rewrite is applied to the     *)
(* caller's branch.  Stated for runs without rejected calls.               *)
(***************************************************************************)
C21_BackupKeepsBranch ==
    (/\ inv.entry = "adv" /\ inv.backup /\ ~inv.dryRun /\ ~faults
     /\ Len(calls) >= 2
     /\ calls[1].op = "checkoutLocalBranch" /\ calls[1].ok
     /\ calls[2].op = "checkout" /\ calls[2].ok)
        => current = pre.current

(***************************************************************************)
(* C22. In one process, after any number of earlier invocations of the     *)
(* advanced removeCommitByCoordinates, an invocation with                  *)
(* interactive=true, force=false, dryRun=false and a matching commit that  *)
(* reaches the confirmation prompt finds the confirmation channel usable:  *)
(* the readline interface is open when the question is to be asked.        *)
(* Stated for runs without rejected calls.                                 *)
(***************************************************************************)
C22_PromptUsable ==
    (/\ pc = "a_confirm" /\ ~faults
     /\ inv.entry = "adv" /\ inv.interactive /\ ~inv.force /\ ~inv.dryRun
     /\ sel # <<>>)
        => ~rlClosed

====
